---- MODULE Spec2Model ----
(***************************************************************************)
(* Model of the NABARD report chatbot: the query-aware reranking pipeline  *)
(* of backend/rag_pipeline.py (year detection, query enhancement, scoring, *)
(* year-coverage selection, context assembly, get_response) and the chat   *)
(* loop of frontend/app.py.                                                *)
(*                                                                         *)
(* Python str values are TLA+ strings, handled character by character with *)
(* Len, SubSeq and \o; regular expressions are modelled by scanning.       *)
(***************************************************************************)
EXTENDS Integers, Sequences, FiniteSets, TLC

VARIABLES
    qwords,             \* the words the raw query text is made of (input)
    query,              \* the raw query string
    docs,               \* the candidate list handed to rerank_docs
    retriever_query,    \* the text retriever.invoke was called with
    pc,                 \* position of the current call / of the chat loop
    requested_years,    \* result of detect_query_years
    enhanced_query,     \* result of preprocess_query
    scored_docs,        \* rerank_docs: the (score, doc) pairs, sorted
    reranked_docs,      \* result of rerank_docs
    formatted_context,  \* result of format_docs
    result,             \* what get_response returned: [answer, sources]
    failed,             \* which external call raised inside get_response
    messages,           \* st.session_state.messages
    example_query,      \* st.session_state.example_query (None when absent)
    turns,              \* number of prompts processed so far
    pipeline            \* the module get_response is taken from

vars == <<qwords, query, docs, retriever_query, pc, requested_years,
          enhanced_query,
          scored_docs, reranked_docs, formatted_context, result, failed,
          messages, example_query, turns, pipeline>>

inputVars == <<qwords, query, docs, retriever_query>>

chatVars == <<result, failed, messages, example_query, turns, pipeline>>

\* the locals of one call of get_response, other than docs
callVars == <<requested_years, enhanced_query, scored_docs, reranked_docs,
              formatted_context>>

None == "<None>"

-----------------------------------------------------------------------------
(* Bounds of the model *)

MaxQueryWords == 3
MaxFill == 16
MaxCore == 2
MaxTurns == 2

-----------------------------------------------------------------------------
(* Characters and strings *)

Char(s, i) == SubSeq(s, i, i)

Digits == {"0", "1", "2", "3", "4", "5", "6", "7", "8", "9"}

IsDigit(c) == c \in Digits

ToLower ==
    ("A" :> "a") @@ ("B" :> "b") @@ ("C" :> "c") @@ ("D" :> "d") @@
    ("E" :> "e") @@ ("F" :> "f") @@ ("G" :> "g") @@ ("H" :> "h") @@
    ("I" :> "i") @@ ("J" :> "j") @@ ("K" :> "k") @@ ("L" :> "l") @@
    ("M" :> "m") @@ ("N" :> "n") @@ ("O" :> "o") @@ ("P" :> "p") @@
    ("Q" :> "q") @@ ("R" :> "r") @@ ("S" :> "s") @@ ("T" :> "t") @@
    ("U" :> "u") @@ ("V" :> "v") @@ ("W" :> "w") @@ ("X" :> "x") @@
    ("Y" :> "y") @@ ("Z" :> "z")

LowerChar(c) == IF c \in DOMAIN ToLower THEN ToLower[c] ELSE c

\* str.lower(): every character lowered, the text taken half by half
RECURSIVE Lower(_)
Lower(s) ==
    IF s = "" THEN ""
    ELSE IF Len(s) = 1 THEN LowerChar(s)
    ELSE LET h == Len(s) \div 2
         IN  Lower(SubSeq(s, 1, h)) \o Lower(SubSeq(s, h + 1, Len(s)))

\* \w of the re module: letters, digits and the underscore
IsWordChar(c) ==
    \/ c \in DOMAIN ToLower
    \/ c \in {ToLower[u] : u \in DOMAIN ToLower}
    \/ IsDigit(c)
    \/ c = "_"

\* \s of str.split(): the whitespace the texts of the model use
IsSpace(c) == c \in {" ", "\n", "\t"}

\* Python's "t in s" on strings
Contains(s, t) ==
    \E i \in 1..(Len(s) - Len(t) + 1) : SubSeq(s, i, i + Len(t) - 1) = t

\* s.startswith(p)
StartsWith(s, p) == Len(p) <= Len(s) /\ SubSeq(s, 1, Len(p)) = p

\* \b: the position before character i (1..Len(s)+1) is a word boundary
WordAt(s, i) == i >= 1 /\ i <= Len(s) /\ IsWordChar(Char(s, i))

WordBoundary(s, i) == WordAt(s, i - 1) # WordAt(s, i)

\* re.search(rf'\b{w}\b', s, re.IGNORECASE) for a literal w
SearchWord(s, w) ==
    \E i \in 1..(Len(s) - Len(w) + 1) :
        /\ Lower(SubSeq(s, i, i + Len(w) - 1)) = Lower(w)
        /\ WordBoundary(s, i)
        /\ WordBoundary(s, i + Len(w))

\* re.search(r'\b(w1|w2|...)\b', s, re.IGNORECASE)
SearchAnyWord(s, ws) == \E w \in ws : SearchWord(s, w)

DigitVal ==
    ("0" :> 0) @@ ("1" :> 1) @@ ("2" :> 2) @@ ("3" :> 3) @@ ("4" :> 4) @@
    ("5" :> 5) @@ ("6" :> 6) @@ ("7" :> 7) @@ ("8" :> 8) @@ ("9" :> 9)

DigitChar == <<"0", "1", "2", "3", "4", "5", "6", "7", "8", "9">>

\* int(s) for a string of decimal digits
RECURSIVE ParseInt(_)
ParseInt(s) ==
    IF s = "" THEN 0
    ELSE 10 * ParseInt(SubSeq(s, 1, Len(s) - 1)) + DigitVal[Char(s, Len(s))]

\* str(n) for n >= 0
RECURSIVE IntToStr(_)
IntToStr(n) ==
    IF n < 10 THEN DigitChar[n + 1]
    ELSE IntToStr(n \div 10) \o DigitChar[(n % 10) + 1]

\* s[-k:]
LastChars(s, k) == IF Len(s) <= k THEN s ELSE SubSeq(s, Len(s) - k + 1, Len(s))

\* s[:k]
FirstChars(s, k) == IF Len(s) <= k THEN s ELSE SubSeq(s, 1, k)

Range(f) == {f[i] : i \in DOMAIN f}

\* sep.join(parts)
RECURSIVE Join(_, _)
Join(parts, sep) ==
    IF parts = <<>> THEN ""
    ELSE IF Len(parts) = 1 THEN parts[1]
    ELSE parts[1] \o sep \o Join(Tail(parts), sep)

\* s.split(): the maximal runs of non-whitespace characters, in order; the
\* text is cut at the whitespace character nearest to its middle
RECURSIVE Split(_)
Split(s) ==
    LET spaces == {i \in 1..Len(s) : IsSpace(Char(s, i))}
        mid    == (Len(s) + 1) \div 2
        Dist(i) == IF i >= mid THEN i - mid ELSE mid - i
    IN  IF s = "" THEN <<>>
        ELSE IF spaces = {} THEN <<s>>
        ELSE LET cut == CHOOSE i \in spaces :
                            \A j \in spaces : Dist(i) <= Dist(j)
             IN  Split(SubSeq(s, 1, cut - 1))
                     \o Split(SubSeq(s, cut + 1, Len(s)))

-----------------------------------------------------------------------------
(* Year extraction: backend/rag_pipeline.py *)

\* the pattern 20\d{2}[sep]\d{2} matches at position i of s
YearAt(s, i, seps) ==
    /\ i + 6 <= Len(s)
    /\ SubSeq(s, i, i + 1) = "20"
    /\ IsDigit(Char(s, i + 2))
    /\ IsDigit(Char(s, i + 3))
    /\ Char(s, i + 4) \in seps
    /\ IsDigit(Char(s, i + 5))
    /\ IsDigit(Char(s, i + 6))

\* re.findall(r'20(\d{2})-(\d{2})', s): the groups of the non-overlapping
\* matches, leftmost first
RECURSIVE FindYearGroups(_, _)
FindYearGroups(s, i) ==
    IF i > Len(s) THEN <<>>
    ELSE IF YearAt(s, i, {"-"})
         THEN <<(<<SubSeq(s, i + 2, i + 3), SubSeq(s, i + 5, i + 6)>>)>>
                  \o FindYearGroups(s, i + 7)
         ELSE FindYearGroups(s, i + 1)

\* re.findall(r'20\d{2}-\d{2}', s): the matched texts
RECURSIVE FindYearTexts(_, _)
FindYearTexts(s, i) ==
    IF i > Len(s) THEN <<>>
    ELSE IF YearAt(s, i, {"-"})
         THEN <<SubSeq(s, i, i + 6)>> \o FindYearTexts(s, i + 7)
         ELSE FindYearTexts(s, i + 1)

\* a plausible slip: "and" is not taken as a range word
RangeWordsWithoutAnd == {"between", "from", "to"}

\* line 98
RangeWords == {"between", "from", "to", "and"}

\* a plausible slip: the range stops before the end year (range(a, b))
YearRangeExclusive(a, b) ==
    IF b <= a THEN <<>>
    ELSE [k \in 1..(b - a) |->
            IntToStr(a + k - 1) \o "-" \o LastChars(IntToStr(a + k), 2)]

\* the loop of lines 102-104: f"{y}-{str(y + 1)[-2:]}" for y in range(a, b + 1)
YearRange(a, b) ==
    IF b < a THEN <<>>
    ELSE [k \in 1..(b - a + 1) |->
            IntToStr(a + k - 1) \o "-" \o LastChars(IntToStr(a + k), 2)]

detect_query_years(q) ==
    LET matches == FindYearGroups(q, 1)
        years   == [k \in 1..Len(matches) |->
                       "20" \o matches[k][1] \o "-" \o matches[k][2]]
    IN  IF SearchAnyWord(q, RangeWords) /\ Len(years) = 2
        THEN YearRange(ParseInt(FirstChars(years[1], 4)),
                       ParseInt(FirstChars(years[Len(years)], 4)))
        ELSE years

-----------------------------------------------------------------------------
(* Query enhancement: backend/rag_pipeline.py *)

ACRONYM_MAP == <<
    <<"RRB", "Regional Rural Bank">>,
    <<"MSME", "Micro, Small and Medium Enterprises">>,
    <<"SHG", "Self Help Group">>,
    <<"NABARD", "National Bank for Agriculture and Rural Development">>,
    <<"PMJJBY", "Pradhan Mantri Jeevan Jyoti Bima Yojana">>,
    <<"PMSBY", "Pradhan Mantri Suraksha Bima Yojana">>,
    <<"APY", "Atal Pension Yojana">>,
    <<"FPO", "Farmer Producer Organization">>,
    <<"WDRA", "Warehousing Development and Regulatory Authority">>,
    <<"RIDF", "Rural Infrastructure Development Fund">>,
    <<"LTIF", "Long Term Irrigation Fund">>,
    <<"DIDF", "Dairy Processing Infrastructure Development Fund">>,
    <<"KCC", "Kisan Credit Card">> >>

\* lines 57-59: one " expansion" per acronym found as a whole word, in the
\* order of the dict
RECURSIVE AcronymExpansions(_, _)
AcronymExpansions(q, k) ==
    IF k > Len(ACRONYM_MAP) THEN ""
    ELSE (IF SearchWord(q, ACRONYM_MAP[k][1])
          THEN " " \o ACRONYM_MAP[k][2] ELSE "")
         \o AcronymExpansions(q, k + 1)

\* lines 63-65: " FY<year> <year>" per year text found
RECURSIVE YearRestatements(_)
YearRestatements(ys) ==
    IF ys = <<>> THEN ""
    ELSE " FY" \o Head(ys) \o " " \o Head(ys) \o YearRestatements(Tail(ys))

AmountWords == {"sanctioned", "disbursed", "funds", "allocated"}

ProgramWords == {"KCC", "Kisan Credit Card"}

\* lines 67-68
AmountTerms(q) ==
    IF SearchAnyWord(q, AmountWords)
    THEN " sanctioned disbursed allocated amount" ELSE ""

\* lines 70-71
ProgramTerms(q) ==
    IF SearchAnyWord(q, ProgramWords)
    THEN " saturation drive Phase operative issued" ELSE ""

\* a plausible slip: the expansions are put in front of the query
preprocess_query_prepend(q) ==
    LET ex == AcronymExpansions(q, 1)
    IN  (IF ex = "" THEN "" ELSE SubSeq(ex, 2, Len(ex)) \o " ")
        \o q
        \o YearRestatements(FindYearTexts(q, 1))
        \o AmountTerms(q)
        \o ProgramTerms(q)

preprocess_query(q) ==
    q \o AcronymExpansions(q, 1)
      \o YearRestatements(FindYearTexts(q, 1))
      \o AmountTerms(q)
      \o ProgramTerms(q)

-----------------------------------------------------------------------------
(* Passages: langchain Document values, equal when their fields are equal *)

Document(source, page, content) ==
    [page_content |-> content, metadata |-> [source |-> source, page |-> page]]

\* a passage whose metadata holds neither a source nor a page
BareDocument(content) ==
    [page_content |-> content, metadata |-> [total_pages |-> 1]]

\* metadata.get(key, default)
MetaGet(metadata, key, default) ==
    IF key \in DOMAIN metadata THEN metadata[key] ELSE default

\* extract_year_from_metadata: re.search(r'20(\d{2})[_-](\d{2})', source)
RECURSIVE FirstSourceYear(_, _)
FirstSourceYear(s, i) ==
    IF i > Len(s) THEN None
    ELSE IF YearAt(s, i, {"_", "-"})
         THEN "20" \o SubSeq(s, i + 2, i + 3) \o "-" \o SubSeq(s, i + 5, i + 6)
         ELSE FirstSourceYear(s, i + 1)

\* the passages of the model
\* filler i of a kind: "paged" fillers differ by page and carry no year,
\* "yearly" fillers are the reports of the years 2000-01, 2001-02, ...
Filler(kind, i) ==
    IF kind = "paged"
    THEN Document("nabard.pdf", i, "sanctioned disbursed funds")
    ELSE Document("AR" \o IntToStr(1999 + i) \o "_"
                       \o LastChars(IntToStr(2000 + i), 2) \o ".pdf",
                  1, "funds")

FillerKinds == {"paged", "yearly"}

CorePool ==
    {Document("AR2020_21.pdf", 7, "loans"),
     Document("AR2020_21.pdf", 7, "loans cumulative"),
     Document("AR2020_21.pdf", 7, "loans funds"),
     Document("AR2021-22.pdf", 2, "Sanctioned amount"),
     BareDocument("Funds disbursed")}

KnownDocs ==
    CorePool \cup {Filler(kind, i) : kind \in FillerKinds, i \in 1..MaxFill}

\* FirstSourceYear of the sources of the passages above, evaluated once
SourceYearTable ==
    [source \in {MetaGet(d.metadata, "source", "") : d \in KnownDocs} |->
        FirstSourceYear(source, 1)]

extract_year_from_metadata(metadata) ==
    LET source == MetaGet(metadata, "source", "")
    IN  IF source \in DOMAIN SourceYearTable
        THEN SourceYearTable[source] ELSE FirstSourceYear(source, 1)

-----------------------------------------------------------------------------
(* Scoring and selection: rerank_docs of backend/rag_pipeline.py *)

MaxDocs == 15
YearBonus == 10
CumulativePenalty == 5
BoostWeight == 3

\* line 182: set(query_lower.split())
QueryTerms(q) == Range(Split(Lower(q)))

\* lines 185-188
BoostTerms(q) ==
    IF Contains(Lower(q), "sanctioned") \/ Contains(Lower(q), "disbursed")
    THEN {"sanctioned", "disbursed", "allocated"}
    ELSE {}

\* lines 181-188: what rerank_docs derives from the query before its loops
QueryContext(q) ==
    [query_terms     |-> QueryTerms(q),
     boost_terms     |-> BoostTerms(q),
     requested_years |-> detect_query_years(q)]

\* the queries put to rerank_docs on its own
RerankQueries ==
    {"funds",
     "sanctioned disbursed 2020-21",
     "sanctioned disbursed 2020-21 2021-22",
     "cumulative funds 2020-21",
     "Funds in 2020-21 and 2021-22",
     "from 2000-01 to 2016-17"}

\* the prompts of the chat: a sample question of the sidebar and typed ones
SampleQuestion == "How much refinance was provided to RRBs?"

TypedPrompts ==
    {"funds sanctioned in 2020-21 and 2021-22",
     "KCC progress between FY2020-21 and FY2022-23"}

ChatQueries == {SampleQuestion} \cup TypedPrompts

\* QueryContext of the queries above, evaluated once
QueryContextTable ==
    [q \in RerankQueries \cup ChatQueries |-> QueryContext(q)]

ContextOf(q) ==
    IF q \in DOMAIN QueryContextTable
    THEN QueryContextTable[q] ELSE QueryContext(q)

RECURSIVE SumOver(_, _, _)
SumOver(terms, boost, weight) ==
    IF terms = {} THEN 0
    ELSE LET t == CHOOSE x \in terms : TRUE
         IN  (IF t \in boost THEN weight ELSE 1)
             + SumOver(terms \ {t}, boost, weight)

\* a plausible slip: only the boost terms count
TermScoreBoostOnly(content_lower, query_terms, boost_terms) ==
    BoostWeight * Cardinality({t \in query_terms \cap boost_terms :
                                  Contains(content_lower, t)})

\* lines 195-196: the terms of the query found in the content, weighted
TermScore(content_lower, query_terms, boost_terms) ==
    SumOver({t \in query_terms : Contains(content_lower, t)},
            boost_terms, BoostWeight)

\* lines 198-200
YearScore(doc, years) ==
    LET doc_year == extract_year_from_metadata(doc.metadata)
    IN  IF doc_year # None /\ doc_year \in Range(years) THEN YearBonus ELSE 0

\* a plausible slip: "elif" in line 202, the penalty only without the bonus
PenaltyScoreElif(doc, years) ==
    IF /\ YearScore(doc, years) = 0
       /\ years # <<>>
       /\ Contains(Lower(doc.page_content), "cumulative")
    THEN 0 - CumulativePenalty ELSE 0

\* lines 202-203
PenaltyScore(doc, years) ==
    IF years # <<>> /\ Contains(Lower(doc.page_content), "cumulative")
    THEN 0 - CumulativePenalty ELSE 0

\* lines 192-203: the score of one passage
doc_score(doc, query_terms, boost_terms, years) ==
    TermScore(Lower(doc.page_content), query_terms, boost_terms)
        + YearScore(doc, years)
        + PenaltyScore(doc, years)

\* a plausible slip: an ascending stable sort read backwards, which turns the
\* passages of equal score around
RECURSIVE InsertDescTiesReversed(_, _)
InsertDescTiesReversed(sorted, x) ==
    IF sorted = <<>> THEN <<x>>
    ELSE IF Head(sorted)[1] > x[1]
         THEN <<Head(sorted)>> \o InsertDescTiesReversed(Tail(sorted), x)
         ELSE <<x>> \o sorted

\* list.sort(reverse=True, key=score): stable, equal scores keep their order
RECURSIVE InsertDesc(_, _)
InsertDesc(sorted, x) ==
    IF sorted = <<>> THEN <<x>>
    ELSE IF Head(sorted)[1] >= x[1]
         THEN <<Head(sorted)>> \o InsertDesc(Tail(sorted), x)
         ELSE <<x>> \o sorted

RECURSIVE SortDescFrom(_, _, _)
SortDescFrom(items, k, acc) ==
    IF k > Len(items) THEN acc
    ELSE SortDescFrom(items, k + 1, InsertDesc(acc, items[k]))

\* doc_score of the passages and the queries of the model, evaluated once
ScoreTable ==
    [q \in DOMAIN QueryContextTable |->
        [d \in KnownDocs |->
            doc_score(d, QueryContextTable[q].query_terms,
                      QueryContextTable[q].boost_terms,
                      QueryContextTable[q].requested_years)]]

\* lines 192-203 for passage d under query q
ScoreFor(d, q) ==
    IF q \in DOMAIN ScoreTable /\ d \in KnownDocs
    THEN ScoreTable[q][d]
    ELSE LET c == ContextOf(q)
         IN  doc_score(d, c.query_terms, c.boost_terms, c.requested_years)

\* lines 190-207: the scored passages, sorted by score descending
ScoredDocs(ds, q) ==
    SortDescFrom([k \in DOMAIN ds |-> <<ScoreFor(ds[k], q), ds[k]>>],
                 1, <<>>)

\* a plausible slip: the coverage loop is left out
CoveragePassSkipped(sd, k, final_docs, years_covered, years) == <<>>

\* lines 213-219: one passage per requested year, in sorted order
RECURSIVE CoveragePass(_, _, _, _, _)
CoveragePass(sd, k, final_docs, years_covered, years) ==
    IF k > Len(sd) THEN final_docs
    ELSE LET doc      == sd[k][2]
             doc_year == extract_year_from_metadata(doc.metadata)
         IN  IF doc_year \in Range(years) /\ doc_year \notin years_covered
             THEN IF Cardinality(years_covered \cup {doc_year}) = Len(years)
                  THEN Append(final_docs, doc)
                  ELSE CoveragePass(sd, k + 1, Append(final_docs, doc),
                                    years_covered \cup {doc_year}, years)
             ELSE CoveragePass(sd, k + 1, final_docs, years_covered, years)

\* a plausible slip: final_docs.insert(0, doc), the fill passages are put in
\* front of the coverage passages
RECURSIVE FillPassInFront(_, _, _)
FillPassInFront(sd, k, final_docs) ==
    IF k > Len(sd) THEN final_docs
    ELSE LET doc == sd[k][2]
         IN  IF doc \notin Range(final_docs) /\ Len(final_docs) < MaxDocs
             THEN FillPassInFront(sd, k + 1, <<doc>> \o final_docs)
             ELSE FillPassInFront(sd, k + 1, final_docs)

\* lines 221-223: the passages not yet in final_docs, up to 15
RECURSIVE FillPass(_, _, _)
FillPass(sd, k, final_docs) ==
    IF k > Len(sd) THEN final_docs
    ELSE LET doc == sd[k][2]
         IN  IF doc \notin Range(final_docs) /\ Len(final_docs) < MaxDocs
             THEN FillPass(sd, k + 1, Append(final_docs, doc))
             ELSE FillPass(sd, k + 1, final_docs)

\* s[:n]
FirstN(s, n) == IF Len(s) <= n THEN s ELSE SubSeq(s, 1, n)

\* a plausible slip: the closing [:15] of line 225 is left out
SelectWithYearsUncut(sd, years) ==
    FillPass(sd, 1, CoveragePass(sd, 1, <<>>, {}, years))

\* lines 210-225
SelectWithYears(sd, years) ==
    FirstN(FillPass(sd, 1, CoveragePass(sd, 1, <<>>, {}, years)), MaxDocs)

\* line 227
SelectTop(sd) ==
    LET top == FirstN(sd, MaxDocs)
    IN  [k \in DOMAIN top |-> top[k][2]]

\* lines 209-227, given the sorted scored passages
SelectDocs(sd, q) ==
    LET years == ContextOf(q).requested_years
    IN  IF years # <<>> THEN SelectWithYears(sd, years) ELSE SelectTop(sd)

rerank_docs(ds, q) == SelectDocs(ScoredDocs(ds, q), q)

-----------------------------------------------------------------------------
(* Context assembly: format_docs of backend/rag_pipeline.py *)

\* lines 162-169: the text of passage number i
FormatChunk(doc, i) ==
    LET source    == MetaGet(doc.metadata, "source", "Unknown")
        page      == IF "page" \in DOMAIN doc.metadata
                     THEN IntToStr(doc.metadata.page) ELSE "N/A"
        year      == extract_year_from_metadata(doc.metadata)
        year_info == IF year # None THEN " [FY" \o year \o "]" ELSE ""
    IN  "--- Source " \o IntToStr(i) \o ": " \o source \o year_info
            \o " (Page " \o page \o ") ---" \o "\n" \o doc.page_content \o "\n"

\* a plausible slip: a heading is emitted even when there are no passages
format_docs_headed(ds) ==
    "Context:" \o Join([i \in DOMAIN ds |-> FormatChunk(ds[i], i)], "\n\n")

format_docs(ds) == Join([i \in DOMAIN ds |-> FormatChunk(ds[i], i)], "\n\n")

-----------------------------------------------------------------------------
(* Inputs of the query functions: texts made of words joined by blanks *)

QueryWords ==
    {"FY2020-21", "FY2022-23", "2021-2", "and", "From", "standard",
     "KCC", "funds"}

RECURSIVE SeqsUpTo(_, _)
SeqsUpTo(S, n) ==
    IF n = 0 THEN {<<>>}
    ELSE LET shorter == SeqsUpTo(S, n - 1)
         IN  shorter \cup {Append(s, x) : s \in shorter, x \in S}

NoResult == [answer |-> None, sources |-> <<>>]

\* the variables no call of the specification at hand touches
IdleChat ==
    /\ result = NoResult
    /\ failed = None
    /\ messages = <<>>
    /\ example_query = None
    /\ turns = 0
    /\ pipeline = "backend"

InitQuery ==
    /\ qwords \in SeqsUpTo(QueryWords, MaxQueryWords)
    /\ query = Join(qwords, " ")
    /\ docs = <<>>
    /\ retriever_query = None
    /\ pc = "start"
    /\ requested_years = <<>>
    /\ enhanced_query = None
    /\ scored_docs = <<>>
    /\ reranked_docs = <<>>
    /\ formatted_context = None
    /\ IdleChat

\* get_response line 248, on its own
DetectYears ==
    /\ pc = "start"
    /\ requested_years' = detect_query_years(query)
    /\ pc' = "detected"
    /\ UNCHANGED <<inputVars, enhanced_query, scored_docs, reranked_docs,
                   formatted_context, chatVars>>

\* get_response line 252, on its own
PreprocessQuery ==
    /\ pc = "detected"
    /\ enhanced_query' = preprocess_query(query)
    /\ pc' = "enhanced"
    /\ UNCHANGED <<inputVars, requested_years, scored_docs, reranked_docs,
                   formatted_context, chatVars>>

NextQuery == DetectYears \/ PreprocessQuery

SpecQuery == InitQuery /\ [][NextQuery]_vars

-----------------------------------------------------------------------------
(* What the words of a query mean, word by word *)

\* the fiscal-year token a word of QueryWords literally carries
WordYear(w) ==
    CASE w = "FY2020-21" -> "2020-21"
      [] w = "FY2022-23" -> "2022-23"
      [] OTHER -> None

\* the words of QueryWords that are range words, as whole words
WordIsRange(w) == w \in {"and", "From"}

RECURSIVE TokensOf(_)
TokensOf(ws) ==
    IF ws = <<>> THEN <<>>
    ELSE (IF WordYear(Head(ws)) = None THEN <<>> ELSE <<WordYear(Head(ws))>>)
         \o TokensOf(Tail(ws))

HasRangeWord(ws) == \E i \in DOMAIN ws : WordIsRange(ws[i])

StartYearOf(tok) ==
    CASE tok = "2020-21" -> 2020
      [] tok = "2022-23" -> 2022

FiscalYearName(y) ==
    CASE y = 2020 -> "2020-21"
      [] y = 2021 -> "2021-22"
      [] y = 2022 -> "2022-23"

ConsecutiveYears(a, b) == [k \in 1..(b - a + 1) |-> FiscalYearName(a + k - 1)]

NoDuplicates(s) == \A i, j \in DOMAIN s : i # j => s[i] # s[j]

-----------------------------------------------------------------------------
(* Claims about detect_query_years and preprocess_query (SpecQuery) *)

\* C3: with exactly two year tokens and a whole range word
\* (between/from/to/and, any case) the result is every consecutive fiscal
\* year from the first token's start year through the second's; otherwise
\* the result is the tokens as found.
C3_RangeExpansion ==
    pc # "start" =>
        LET toks == TokensOf(qwords)
        IN  IF Len(toks) = 2 /\ HasRangeWord(qwords)
            THEN requested_years =
                     ConsecutiveYears(StartYearOf(toks[1]), StartYearOf(toks[2]))
            ELSE requested_years = toks

C3_Witness ==
    /\ pc = "detected"
    /\ Len(TokensOf(qwords)) = 2
    /\ HasRangeWord(qwords)
    /\ Len(requested_years) = 3

\* C4 as stated: "FY2020-21 and FY2022-23" yields exactly the two years
\* found, nothing in between.
C4_TwoYearsOnly ==
    (pc # "start" /\ query = "FY2020-21 and FY2022-23") =>
        requested_years = <<"2020-21", "2022-23">>

\* C4 as amended: "FY2020-21 and FY2022-23" holds two year tokens and the
\* range word "and", so the result is the expanded range of three years.
C4_AndExpandsRange ==
    (pc # "start" /\ query = "FY2020-21 and FY2022-23") =>
        requested_years = <<"2020-21", "2021-22", "2022-23">>

C4_Witness ==
    /\ pc = "detected"
    /\ query = "FY2020-21 and FY2022-23"
    /\ "2021-22" \in Range(requested_years)

\* C5: the list returned by detect_query_years holds each fiscal year at
\* most once.
C5_NoDuplicateYears == pc # "start" => NoDuplicates(requested_years)

\* C8: preprocess_query(q) starts with q, verbatim, and is at least as long
\* as q: everything appended comes after q.
C8_EnhancementKeepsQuery ==
    pc = "enhanced" =>
        /\ StartsWith(enhanced_query, query)
        /\ Len(enhanced_query) >= Len(query)

C8_Witness ==
    /\ pc = "enhanced"
    /\ \E i \in DOMAIN qwords : qwords[i] = "KCC"
    /\ \E i \in DOMAIN qwords : WordYear(qwords[i]) # None
    /\ Len(enhanced_query) > Len(query)

\* C15: whenever the query holds at least one fiscal-year token, the list
\* detect_query_years returns is not empty and holds every token of the
\* query (after a range expansion: both ends of the range); a range written
\* from the later year to the earlier one does not come out empty.
C15_YearsNeverLost ==
    (pc # "start" /\ TokensOf(qwords) # <<>>) =>
        /\ requested_years # <<>>
        /\ Range(TokensOf(qwords)) \subseteq Range(requested_years)

-----------------------------------------------------------------------------
(* Inputs of rerank_docs: a run of filler passages followed by a few        *)
(* passages drawn from a pool                                              *)

CandidateLists ==
    {[i \in 1..n |-> Filler(kind, i)] \o core :
        kind \in FillerKinds, n \in 0..MaxFill,
        core \in SeqsUpTo(CorePool, MaxCore)}

InitRerank ==
    /\ query \in RerankQueries
    /\ qwords = Split(query)
    /\ docs \in CandidateLists
    /\ retriever_query = None
    /\ pc = "start"
    /\ requested_years = <<>>
    /\ enhanced_query = None
    /\ scored_docs = <<>>
    /\ reranked_docs = <<>>
    /\ formatted_context = None
    /\ IdleChat

\* a call rerank_docs(docs, query)
RerankDocs ==
    /\ pc = "start"
    /\ requested_years' = ContextOf(query).requested_years
    /\ scored_docs' = ScoredDocs(docs, query)
    /\ reranked_docs' = SelectDocs(scored_docs', query)
    /\ pc' = "reranked"
    /\ UNCHANGED <<inputVars, enhanced_query, formatted_context, chatVars>>

\* a call format_docs(reranked_docs)
FormatDocs ==
    /\ pc = "reranked"
    /\ formatted_context' = format_docs(reranked_docs)
    /\ pc' = "formatted"
    /\ UNCHANGED <<inputVars, requested_years, enhanced_query, scored_docs,
                   reranked_docs, chatVars>>

NextRerank == RerankDocs \/ FormatDocs

SpecRerank == InitRerank /\ [][NextRerank]_vars

-----------------------------------------------------------------------------
(* Claims about rerank_docs and format_docs (SpecRerank) *)

YearOf(doc) == extract_year_from_metadata(doc.metadata)

YearsOf(ds) == {YearOf(ds[i]) : i \in DOMAIN ds} \ {None}

\* position of the first passage of year y in the sorted list
FirstOfYear(y) ==
    CHOOSE k \in DOMAIN scored_docs :
        /\ YearOf(scored_docs[k][2]) = y
        /\ \A j \in 1..(k - 1) : YearOf(scored_docs[j][2]) # y

\* C1: when at most 15 years are requested and each of them is the source
\* year of a candidate, the list rerank_docs returns holds a passage of each
\* requested year, whatever the other candidates score.
C1_YearCoverage ==
    ( /\ pc # "start"
      /\ requested_years # <<>>
      /\ Len(requested_years) <= MaxDocs
      /\ Range(requested_years) \subseteq YearsOf(docs) )
    => Range(requested_years) \subseteq YearsOf(reranked_docs)

\* a requested year whose best passage ranks below 15 others is still there
C1_Witness ==
    /\ pc = "reranked"
    /\ requested_years # <<>>
    /\ Len(requested_years) <= MaxDocs
    /\ Range(requested_years) \subseteq YearsOf(docs)
    /\ \E y \in Range(requested_years) : FirstOfYear(y) > MaxDocs
    /\ Range(requested_years) \subseteq YearsOf(reranked_docs)

\* C2: rerank_docs never returns more than 15 passages.
C2_CapRespected == pc # "start" => Len(reranked_docs) <= MaxDocs

\* more than 15 requested years, each with a candidate of its own
C2_Witness ==
    /\ pc = "reranked"
    /\ Cardinality(Range(requested_years) \cap YearsOf(docs)) > MaxDocs
    /\ Len(reranked_docs) = MaxDocs

\* C10: on an empty candidate list rerank_docs returns the empty list, and
\* format_docs of the empty selection is the empty string.
C10_EmptyInput ==
    (pc # "start" /\ docs = <<>>) =>
        /\ reranked_docs = <<>>
        /\ pc = "formatted" => formatted_context = ""

C10_Witness ==
    /\ pc = "formatted"
    /\ docs = <<>>
    /\ requested_years # <<>>
    /\ formatted_context = ""

\* the text b is the text a with x put in at some place
Inserted(a, b, x) ==
    /\ Len(b) = Len(a) + Len(x)
    /\ \E k \in 0..Len(a) :
        /\ SubSeq(b, 1, k) = SubSeq(a, 1, k)
        /\ SubSeq(b, k + 1, k + Len(x)) = x
        /\ SubSeq(b, k + Len(x) + 1, Len(b)) = SubSeq(a, k + 1, Len(a))

\* passage d2 is passage d1 with the word w added to its content (with or
\* without a blank next to it), and d1's content does not contain w
SameButFor(d1, d2, w) ==
    /\ d1.metadata = d2.metadata
    /\ Len(d2.page_content) > Len(d1.page_content)
    /\ \E x \in {w, " " \o w, w \o " "} :
           Inserted(d1.page_content, d2.page_content, x)
    /\ ~Contains(Lower(d1.page_content), w)

\* the query terms found in the content of a passage
TermsIn(d) ==
    {t \in ContextOf(query).query_terms : Contains(Lower(d.page_content), t)}

HasCumulative(d) == Contains(Lower(d.page_content), "cumulative")

\* C6 as stated: with years requested, of two passages identical except
\* that one contains "cumulative", that one scores exactly 5 lower.
C6_ExactlyFiveLower ==
    (pc # "start" /\ requested_years # <<>>) =>
        \A i, j \in DOMAIN scored_docs :
            SameButFor(scored_docs[i][2], scored_docs[j][2], "cumulative")
            => scored_docs[j][1] = scored_docs[i][1] - CumulativePenalty

\* C6 as amended: ... exactly 5 lower provided the same query terms occur in
\* both contents (the word "cumulative" may itself match a query term, and
\* then the term hit is scored as well).
C6_FiveLowerSameTerms ==
    (pc # "start" /\ requested_years # <<>>) =>
        \A i, j \in DOMAIN scored_docs :
            ( /\ SameButFor(scored_docs[i][2], scored_docs[j][2], "cumulative")
              /\ TermsIn(scored_docs[i][2]) = TermsIn(scored_docs[j][2]) )
            => scored_docs[j][1] = scored_docs[i][1] - CumulativePenalty

C6_Witness ==
    /\ pc = "reranked"
    /\ requested_years # <<>>
    /\ \E i, j \in DOMAIN scored_docs :
        /\ SameButFor(scored_docs[i][2], scored_docs[j][2], "cumulative")
        /\ TermsIn(scored_docs[i][2]) = TermsIn(scored_docs[j][2])
        /\ YearOf(scored_docs[i][2]) \in Range(requested_years)
        /\ scored_docs[j][1] = scored_docs[i][1] - CumulativePenalty

\* C7 as stated: for every query term t, a passage containing t scores
\* strictly higher than the otherwise identical passage lacking t.
C7_TermRaisesScore ==
    pc # "start" =>
        \A t \in ContextOf(query).query_terms :
            \A i, j \in DOMAIN scored_docs :
                SameButFor(scored_docs[i][2], scored_docs[j][2], t)
                => scored_docs[j][1] > scored_docs[i][1]

\* C7 as amended: ... strictly higher, provided every query term found in
\* the passage lacking t is found in the other one too and, when years are
\* requested, t does not bring "cumulative" into the content (the penalty
\* of 5 then outweighs the term).
C7_TermRaisesScoreUnlessPenalised ==
    pc # "start" =>
        \A t \in ContextOf(query).query_terms :
            \A i, j \in DOMAIN scored_docs :
                ( /\ SameButFor(scored_docs[i][2], scored_docs[j][2], t)
                  /\ TermsIn(scored_docs[i][2]) \subseteq TermsIn(scored_docs[j][2])
                  /\ \/ requested_years = <<>>
                     \/ HasCumulative(scored_docs[i][2])
                     \/ ~HasCumulative(scored_docs[j][2]) )
                => scored_docs[j][1] > scored_docs[i][1]

C7_Witness ==
    /\ pc = "reranked"
    /\ requested_years # <<>>
    /\ \E t \in ContextOf(query).query_terms :
        \E i, j \in DOMAIN scored_docs :
            /\ SameButFor(scored_docs[i][2], scored_docs[j][2], t)
            /\ ~HasCumulative(scored_docs[j][2])
            /\ scored_docs[j][1] > scored_docs[i][1]

Min(a, b) == IF a <= b THEN a ELSE b

\* the score rerank_docs gave passage d, read off the scored pairs
ScoreGiven(d) ==
    scored_docs[CHOOSE i \in DOMAIN scored_docs : scored_docs[i][2] = d][1]

\* the scores of the passages of ds, place by place
RECURSIVE ScoresOf(_)
ScoresOf(ds) ==
    IF ds = <<>> THEN <<>>
    ELSE <<ScoreGiven(Head(ds))>> \o ScoresOf(Tail(ds))

\* the score of every candidate, by its place in the candidate list
CandidateScores == ScoresOf(docs)

\* the place candidate k takes when the candidates are put in order of
\* score, highest first, candidates of equal score in candidate order
PlaceOf(score, k) ==
    Cardinality({j \in DOMAIN docs :
                    \/ score[j] > score[k]
                    \/ score[j] = score[k] /\ j <= k})

\* C11: when the query requests no years, rerank_docs returns the first
\* min(15, n) candidates in order of score, highest first, candidates of
\* equal score in their original candidate order.
C11_StableTopByScore ==
    (pc # "start" /\ requested_years = <<>>) =>
        LET score == CandidateScores
        IN  /\ Len(reranked_docs) = Min(MaxDocs, Len(docs))
            /\ \A k \in DOMAIN docs :
                   PlaceOf(score, k) <= MaxDocs
                   => reranked_docs[PlaceOf(score, k)] = docs[k]

\* more than 15 candidates, several of equal score, and a later candidate
\* of higher score that moves ahead of an earlier one and into the first 15
C11_Witness ==
    /\ pc = "reranked"
    /\ requested_years = <<>>
    /\ Len(docs) > MaxDocs
    /\ LET score == CandidateScores
       IN  /\ \E i, j \in DOMAIN docs :
                 /\ i < j
                 /\ docs[i] # docs[j]
                 /\ score[i] = score[j]
                 /\ PlaceOf(score, j) <= MaxDocs
           /\ \E i, j \in DOMAIN docs :
                 /\ i < j
                 /\ score[i] < score[j]
                 /\ PlaceOf(score, j) = MaxDocs
                 /\ PlaceOf(score, i) > MaxDocs
    /\ Len(reranked_docs) = MaxDocs

\* the places, in the sorted list, of the coverage passages: the first
\* passage of each requested year
CoveragePlaces ==
    {k \in DOMAIN scored_docs :
        /\ YearOf(scored_docs[k][2]) \in Range(requested_years)
        /\ \A j \in 1..(k - 1) :
               YearOf(scored_docs[j][2]) # YearOf(scored_docs[k][2])}

\* the n-th smallest number of S
NthOf(S, n) == CHOOSE k \in S : Cardinality({j \in S : j <= k}) = n

\* the first place of passage d in the sorted list
FirstPlace(d) ==
    CHOOSE i \in DOMAIN scored_docs :
        /\ scored_docs[i][2] = d
        /\ \A j \in 1..(i - 1) : scored_docs[j][2] # d

\* C12: with years requested, the list rerank_docs returns (cut at 15)
\* consists first of the coverage passages, one per requested year, each the
\* highest-ranked candidate of its year, in sorted order; then of the
\* passages not yet selected, in sorted (score-descending) order, until the
\* cap is reached or none is left; no fill passage precedes a coverage
\* passage.
C12_CoverageThenFill ==
    (pc # "start" /\ requested_years # <<>>) =>
        LET cov == CoveragePlaces
            m   == Min(Cardinality(cov), MaxDocs)
        IN  /\ Len(reranked_docs) >= m
            /\ \A p \in 1..m :
                   reranked_docs[p] = scored_docs[NthOf(cov, p)][2]
            /\ \A p \in (m + 1)..Len(reranked_docs) :
                   FirstPlace(reranked_docs[p]) \notin cov
            /\ \A p \in (m + 2)..Len(reranked_docs) :
                   /\ FirstPlace(reranked_docs[p - 1])
                          < FirstPlace(reranked_docs[p])
                   /\ ScoreGiven(reranked_docs[p - 1])
                          >= ScoreGiven(reranked_docs[p])
            /\ \/ Len(reranked_docs) = MaxDocs
               \/ \A k \in DOMAIN scored_docs :
                      scored_docs[k][2] \in Range(reranked_docs)

\* two coverage passages, the second of them ranked below a fill passage
\* in the sorted list and still returned ahead of it, and more than 15
\* candidates
C12_Witness ==
    /\ pc = "reranked"
    /\ Len(docs) > MaxDocs
    /\ Cardinality(CoveragePlaces) = 2
    /\ \E q \in 3..Len(reranked_docs) :
           FirstPlace(reranked_docs[q]) < NthOf(CoveragePlaces, 2)
    /\ reranked_docs[2] = scored_docs[NthOf(CoveragePlaces, 2)][2]

\* how many places of the list ds hold the passage d
Occurrences(ds, d) == Cardinality({i \in DOMAIN ds : ds[i] = d})

\* C16: rerank_docs returns exactly min(15, n) passages of n candidates,
\* each candidate position at most once, whether or not years are
\* requested: candidates equal by value are kept in both branches and the
\* fill pass drops no candidate while the selection is below the cap.
C16_EveryPositionCounts ==
    pc # "start" =>
        /\ Len(reranked_docs) = Min(MaxDocs, Len(docs))
        /\ \A d \in Range(reranked_docs) :
               Occurrences(reranked_docs, d) <= Occurrences(docs, d)

-----------------------------------------------------------------------------
(* get_response of backend/rag_pipeline.py and of rag_pipeline.py, and the  *)
(* chat loop of frontend/app.py                                            *)

SourceLimit == 5
ExcerptLen == 400
LegacyExcerptLen == 350

\* what the retriever hands back to a chat prompt
ChatRetrievals ==
    {<<>>,
     <<Document("AR2020_21.pdf", 7, "loans funds"),
       Document("AR2021-22.pdf", 2, "Sanctioned amount")>>,
     [i \in 1..4 |-> Filler("paged", i)]
        \o <<Document("AR2020_21.pdf", 7, "loans cumulative"),
             Document("AR2021-22.pdf", 2, "Sanctioned amount")>>}

\* the text the generation service answers with
LLMAnswers == {"In FY2020-21 the amount sanctioned was ..."}

\* str(e) of the exception an external call raises
ErrorText(failure) ==
    IF failure = "retriever" THEN "vector store unavailable"
    ELSE "rate limit exceeded"

\* the question of the __main__ block of rag_pipeline.py
LegacyTestQuery == "What is NABARD's total sources of funds in 2022-23?"

\* backend line 255: of the raw and the enhanced query, the one handed to
\* the retriever
RetrieverInput(raw, enhanced) == enhanced

\* a plausible slip: the enhanced query is handed to rerank_docs as well
RerankInputEnhanced(raw, enhanced) == enhanced

\* backend line 265: of the raw and the enhanced query, the one handed to
\* rerank_docs
RerankInput(raw, enhanced) == raw

\* backend lines 273-280: the excerpts of the first five passages
SourceInfo(doc) ==
    LET doc_year  == extract_year_from_metadata(doc.metadata)
        year_info == IF doc_year # None THEN " [FY" \o doc_year \o "]" ELSE ""
        page      == IF "page" \in DOMAIN doc.metadata
                     THEN IntToStr(doc.metadata.page) ELSE "N/A"
    IN  "[" \o MetaGet(doc.metadata, "source", "Unknown") \o year_info
            \o " - Page " \o page \o "]" \o "\n"
            \o FirstChars(doc.page_content, ExcerptLen) \o "..."

\* a plausible slip: an excerpt for every passage, as rag_pipeline.py does
SourcesUncapped(ds) == [i \in DOMAIN ds |-> SourceInfo(ds[i])]

Sources(ds) ==
    LET top == FirstN(ds, SourceLimit)
    IN  [i \in DOMAIN top |-> SourceInfo(top[i])]

\* rag_pipeline.py line 54
legacy_format_docs(ds) ==
    Join([i \in DOMAIN ds |-> ds[i].page_content], "\n\n")

\* rag_pipeline.py line 81
LegacySources(ds) ==
    [i \in DOMAIN ds |->
        FirstChars(ds[i].page_content, LegacyExcerptLen) \o "..."]

\* a plausible slip: the handler hands the error text back as a source too
ErrorResultWithSource(failure) ==
    [answer  |-> "Error generating response: " \o ErrorText(failure),
     sources |-> <<ErrorText(failure)>>]

\* backend lines 284-288, rag_pipeline.py lines 84-90
ErrorResult(failure) ==
    [answer  |-> "Error generating response: " \o ErrorText(failure),
     sources |-> <<>>]

Init ==
    /\ docs = <<>>
    /\ retriever_query = None
    /\ requested_years = <<>>
    /\ enhanced_query = None
    /\ scored_docs = <<>>
    /\ reranked_docs = <<>>
    /\ formatted_context = None
    /\ result = NoResult
    /\ failed = None
    /\ messages = <<>>
    /\ example_query = None
    /\ turns = 0
    /\ \/ /\ pipeline = "backend"       \* streamlit run frontend/app.py
          /\ pc = "idle"
          /\ query = None
          /\ qwords = <<>>
       \/ /\ pipeline = "legacy"        \* python rag_pipeline.py
          /\ pc = "get_response"
          /\ query = LegacyTestQuery
          /\ qwords = Split(LegacyTestQuery)

\* app.py lines 61-64: a sample question of the sidebar is clicked
SidebarClick ==
    /\ pc = "idle"
    /\ turns < MaxTurns
    /\ example_query = None
    /\ example_query' = SampleQuestion
    /\ UNCHANGED <<inputVars, pc, callVars, result, failed, messages, turns,
                   pipeline>>

\* a plausible slip: the typed prompt is taken before the sample question
RunScriptTypedFirst(typed) ==
    /\ pc = "idle"
    /\ turns < MaxTurns
    /\ LET prompt == IF typed # None THEN typed ELSE example_query
       IN  /\ example_query' = None
           /\ IF prompt # None
              THEN /\ messages' = Append(messages,
                                         [role |-> "user", content |-> prompt])
                   /\ query' = prompt
                   /\ qwords' = Split(prompt)
                   /\ pc' = "get_response"
              ELSE UNCHANGED <<messages, query, qwords, pc>>
    /\ UNCHANGED <<docs, retriever_query, callVars, result, failed, turns,
                   pipeline>>

\* app.py lines 116-131: the prompt of this run, the sample question first
RunScript(typed) ==
    /\ pc = "idle"
    /\ turns < MaxTurns
    /\ LET example_prompt == example_query
           prompt == IF example_prompt # None THEN example_prompt ELSE typed
       IN  /\ example_query' = None
           /\ IF prompt # None
              THEN /\ messages' = Append(messages,
                                         [role |-> "user", content |-> prompt])
                   /\ query' = prompt
                   /\ qwords' = Split(prompt)
                   /\ pc' = "get_response"
              ELSE UNCHANGED <<messages, query, qwords, pc>>
    /\ UNCHANGED <<docs, retriever_query, callVars, result, failed, turns,
                   pipeline>>

\* backend line 248
GR_DetectYears ==
    /\ pc = "get_response"
    /\ pipeline = "backend"
    /\ requested_years' = ContextOf(query).requested_years
    /\ pc' = "preprocess"
    /\ UNCHANGED <<inputVars, enhanced_query, scored_docs, reranked_docs,
                   formatted_context, chatVars>>

\* backend line 252
GR_Preprocess ==
    /\ pc = "preprocess"
    /\ enhanced_query' = preprocess_query(query)
    /\ pc' = "retrieve"
    /\ UNCHANGED <<inputVars, requested_years, scored_docs, reranked_docs,
                   formatted_context, chatVars>>

\* backend line 255: retriever.invoke(enhanced_query) returns
GR_Retrieve ==
    /\ pc = "retrieve"
    /\ retriever_query' = RetrieverInput(query, enhanced_query)
    /\ \E ds \in ChatRetrievals : docs' = ds
    /\ pc' = "rerank"
    /\ UNCHANGED <<qwords, query, callVars, chatVars>>

\* backend line 255: retriever.invoke raises
GR_RetrieveFails ==
    /\ pc = "retrieve"
    /\ failed' = "retriever"
    /\ pc' = "except"
    /\ UNCHANGED <<inputVars, callVars, result, messages, example_query,
                   turns, pipeline>>

\* backend line 265
GR_Rerank ==
    /\ pc = "rerank"
    /\ scored_docs' = ScoredDocs(docs, RerankInput(query, enhanced_query))
    /\ reranked_docs' = rerank_docs(docs, RerankInput(query, enhanced_query))
    /\ pc' = "format"
    /\ UNCHANGED <<inputVars, requested_years, enhanced_query,
                   formatted_context, chatVars>>

\* backend line 268
GR_Format ==
    /\ pc = "format"
    /\ formatted_context' = format_docs(reranked_docs)
    /\ pc' = "generate"
    /\ UNCHANGED <<inputVars, requested_years, enhanced_query, scored_docs,
                   reranked_docs, chatVars>>

\* backend lines 269-282: llm.invoke returns, the excerpts are built
GR_Generate ==
    /\ pc = "generate"
    /\ \E a \in LLMAnswers :
           result' = [answer |-> a, sources |-> Sources(reranked_docs)]
    /\ pc' = "returned"
    /\ UNCHANGED <<inputVars, callVars, failed, messages, example_query,
                   turns, pipeline>>

\* backend line 269: llm.invoke raises
GR_GenerateFails ==
    /\ pc = "generate"
    /\ failed' = "llm"
    /\ pc' = "except"
    /\ UNCHANGED <<inputVars, callVars, result, messages, example_query,
                   turns, pipeline>>

\* rag_pipeline.py line 79: retriever.invoke(query) returns
LG_Retrieve ==
    /\ pc = "get_response"
    /\ pipeline = "legacy"
    /\ retriever_query' = query
    /\ \E ds \in ChatRetrievals : docs' = ds
    /\ pc' = "chain"
    /\ UNCHANGED <<qwords, query, callVars, chatVars>>

\* rag_pipeline.py line 79: retriever.invoke raises
LG_RetrieveFails ==
    /\ pc = "get_response"
    /\ pipeline = "legacy"
    /\ failed' = "retriever"
    /\ pc' = "except"
    /\ UNCHANGED <<inputVars, callVars, result, messages, example_query,
                   turns, pipeline>>

\* rag_pipeline.py lines 80-82: rag_chain.invoke(query) retrieves again,
\* formats, prompts the model and returns
LG_Chain ==
    /\ pc = "chain"
    /\ \E ds \in ChatRetrievals, a \in LLMAnswers :
        /\ formatted_context' = legacy_format_docs(ds)
        /\ result' = [answer |-> a, sources |-> LegacySources(docs)]
    /\ pc' = "returned"
    /\ UNCHANGED <<inputVars, requested_years, enhanced_query, scored_docs,
                   reranked_docs, failed, messages, example_query, turns,
                   pipeline>>

\* rag_pipeline.py line 80: the retriever or the model raises in the chain
LG_ChainFails ==
    /\ pc = "chain"
    /\ \E f \in {"retriever", "llm"} : failed' = f
    /\ pc' = "except"
    /\ UNCHANGED <<inputVars, callVars, result, messages, example_query,
                   turns, pipeline>>

\* backend lines 284-288, rag_pipeline.py lines 84-90: except Exception
GR_Except ==
    /\ pc = "except"
    /\ result' = ErrorResult(failed)
    /\ pc' = "returned"
    /\ UNCHANGED <<inputVars, callVars, failed, messages, example_query,
                   turns, pipeline>>

\* the end of a turn: the locals of the call are gone
EndTurn ==
    /\ docs' = <<>>
    /\ retriever_query' = None
    /\ requested_years' = <<>>
    /\ enhanced_query' = None
    /\ scored_docs' = <<>>
    /\ reranked_docs' = <<>>
    /\ formatted_context' = None
    /\ result' = NoResult
    /\ failed' = None
    /\ turns' = turns + 1
    /\ UNCHANGED <<qwords, query, example_query, pipeline>>

\* app.py lines 144-159: the answer is shown and recorded
AppRecord ==
    /\ pc = "returned"
    /\ pipeline = "backend"
    /\ messages' = Append(messages, [role    |-> "assistant",
                                     content |-> result.answer,
                                     sources |-> result.sources])
    /\ pc' = "idle"
    /\ EndTurn

\* app.py lines 145-153 and 161-169: showing the answer raises
AppRenderFails ==
    /\ pc = "returned"
    /\ pipeline = "backend"
    /\ messages' = Append(messages, [role    |-> "assistant",
                                     content |-> " Error: widget failure",
                                     sources |-> <<>>])
    /\ pc' = "idle"
    /\ EndTurn

\* rag_pipeline.py lines 95-98: the test prints what came back
LG_MainPrints ==
    /\ pc = "returned"
    /\ pipeline = "legacy"
    /\ pc' = "done"
    /\ UNCHANGED <<inputVars, callVars, chatVars>>

Next ==
    \/ SidebarClick
    \/ \E typed \in TypedPrompts \cup {None} : RunScript(typed)
    \/ GR_DetectYears
    \/ GR_Preprocess
    \/ GR_Retrieve
    \/ GR_RetrieveFails
    \/ GR_Rerank
    \/ GR_Format
    \/ GR_Generate
    \/ GR_GenerateFails
    \/ GR_Except
    \/ AppRecord
    \/ AppRenderFails
    \/ LG_Retrieve
    \/ LG_RetrieveFails
    \/ LG_Chain
    \/ LG_ChainFails
    \/ LG_MainPrints

Spec == Init /\ [][Next]_vars

-----------------------------------------------------------------------------
(* Claims about get_response and the chat loop (Spec) *)

IsError(r) ==
    /\ r.sources = <<>>
    /\ StartsWith(r.answer, "Error generating response: ")
    /\ r.answer \notin LLMAnswers

\* C9: when the retriever or the generation call fails, get_response does
\* not raise: it returns an error message with an empty source list (no
\* partial answer, no source), and the chat loop then records exactly one
\* assistant message, with empty sources, for that turn.
C9_FailureContained ==
    /\ [][(failed = None /\ failed' # None) => pc' = "except"]_vars
    /\ [][pc = "except" => (pc' = "returned" /\ IsError(result'))]_vars
    /\ []((failed # None /\ pc = "returned") => IsError(result))
    /\ [][(failed # None /\ pc = "returned" /\ pipeline = "backend") =>
            /\ pc' = "idle"
            /\ Len(messages') = Len(messages) + 1
            /\ messages'[Len(messages')].role = "assistant"
            /\ messages'[Len(messages')].sources = <<>>
            /\ messages[Len(messages)].role = "user"]_vars

\* a turn whose generation call failed after retrieval and reranking went
\* through, recorded as one error message without sources
C9_Witness ==
    /\ pc = "idle"
    /\ turns = 1
    /\ Len(messages) = 2
    /\ messages[2].role = "assistant"
    /\ messages[2].content = ErrorResult("llm").answer
    /\ messages[2].sources = <<>>

\* C13: within one turn of the backend's get_response the enhanced query
\* goes to the retriever and nowhere else: the requested years are those of
\* the raw query and are not changed by preprocess_query or anything after
\* it, every score is the score under the raw query's terms and years, and
\* the selection is the one made for the raw query.
C13_RawQueryDrivesRerank ==
    /\ []((pipeline = "backend" /\ pc \in {"rerank", "format", "generate"}) =>
            /\ retriever_query = enhanced_query
            /\ StartsWith(retriever_query, query)
            /\ requested_years = detect_query_years(query))
    /\ []((pipeline = "backend" /\ pc \in {"format", "generate"}) =>
            LET years == detect_query_years(query)
            IN  /\ \A i \in DOMAIN scored_docs :
                       scored_docs[i][1] =
                           doc_score(scored_docs[i][2], QueryTerms(query),
                                     BoostTerms(query), years)
                /\ (Range(years) \cap YearsOf(docs))
                       \subseteq YearsOf(reranked_docs)
                /\ reranked_docs = SelectDocs(scored_docs, query))
    /\ [][requested_years' # requested_years =>
              (pc = "get_response" \/ pc' = "idle")]_vars

\* a range query whose enhanced text would yield other years (the year
\* restatements make six tokens of two, so no range is expanded): the
\* passage of the year in between is still selected first, as a passage of
\* a requested year
C13_Witness ==
    /\ pipeline = "backend"
    /\ pc = "generate"
    /\ retriever_query = enhanced_query
    /\ retriever_query # query
    /\ requested_years = <<"2020-21", "2021-22", "2022-23">>
    /\ "2021-22" \notin Range(detect_query_years(enhanced_query))
    /\ Len(reranked_docs) > 2
    /\ YearOf(reranked_docs[1]) = "2021-22"

\* the backend's get_response has returned what the model answered
Succeeded == pipeline = "backend" /\ pc = "returned" /\ failed = None

\* C14: on a successful turn get_response returns exactly
\* min(5, |selection|) source excerpts, the i-th built from the i-th passage
\* of the reranked selection, the selection the context was assembled from.
C14_CitationsFollowSelection ==
    Succeeded =>
        /\ Len(result.sources) = Min(SourceLimit, Len(reranked_docs))
        /\ \A i \in DOMAIN result.sources :
               result.sources[i] = SourceInfo(reranked_docs[i])
        /\ formatted_context = format_docs(reranked_docs)

\* six passages selected, in another order than they were retrieved in:
\* five excerpts, the first one of the passage reranking put first
C14_Witness ==
    /\ Succeeded
    /\ Len(reranked_docs) > SourceLimit
    /\ Len(result.sources) = SourceLimit
    /\ reranked_docs[1] # docs[1]
    /\ result.sources[1] = SourceInfo(reranked_docs[1])
    /\ result.sources[1] # SourceInfo(docs[1])

UserMessage(text) == [role |-> "user", content |-> text]

\* C17: in the chat loop, with get_response returning or raising in every
\* turn, the message history alternates user, assistant, starting with a
\* user message: every processed prompt appends exactly one user message
\* and then exactly one assistant message carrying a sources list; a pending
\* sample question is consumed exactly once, by the next run, and is the
\* prompt of that run whatever was typed.
C17_HistoryAlternates ==
    /\ [](\A i \in DOMAIN messages :
              IF i % 2 = 1
              THEN messages[i].role = "user"
              ELSE /\ messages[i].role = "assistant"
                   /\ "sources" \in DOMAIN messages[i])
    /\ [](pipeline = "backend" =>
              /\ Len(messages) = 2 * turns + (IF pc = "idle" THEN 0 ELSE 1)
              /\ pc # "idle" => example_query = None)
    /\ [][messages' # messages =>
              /\ Len(messages') = Len(messages) + 1
              /\ SubSeq(messages', 1, Len(messages)) = messages
              /\ \/ pc = "idle" /\ pc' = "get_response"
                 \/ pc = "returned" /\ pc' = "idle"]_vars
    /\ [][(example_query # None /\ example_query' # example_query) =>
              /\ example_query' = None
              /\ messages' = Append(messages, UserMessage(example_query))
              /\ query' = example_query]_vars

\* two turns, the first on a clicked sample question and the second on a
\* typed prompt, one answered with sources and one ending in an error
C17_Witness ==
    /\ pc = "idle"
    /\ turns = 2
    /\ Len(messages) = 4
    /\ messages[1] = UserMessage(SampleQuestion)
    /\ messages[3].content \in TypedPrompts
    /\ example_query = None
    /\ messages[2].sources # <<>>
    /\ messages[4].sources = <<>>
    /\ StartsWith(messages[4].content, "Error generating response: ")

====
